---- MODULE Spec2Model ----
(***************************************************************************)
(* State-machine model of scripts/create_api_gateway_presentation.py:      *)
(* the slide helpers create_title_slide, create_content_slide,             *)
(* create_section_header and add_code_block acting on one presentation.    *)
(*                                                                         *)
(* The presentation object of python-pptx is modelled by what the helpers  *)
(* read and write of it: the slide list, each slide's layout, title text,  *)
(* placeholder idx 1 (subtitle or body text frame: a list of paragraphs    *)
(* with text and level) and text boxes.  Texts are opaque values.          *)
(***************************************************************************)
EXTENDS Integers, Sequences, FiniteSets, TLC

VARIABLES
    tmpl,    \* the template of prs: layout index -> does the layout hold a placeholder idx 1
    slides,  \* prs.slides, in document order
    call,    \* the helper call that ran last, with its arguments
    ret,     \* what that call returned
    exc,     \* the exception that call raised ("None" when it returned)
    ops      \* the calls that helper issued on the presentation, in order

vars == <<tmpl, slides, call, ret, exc, ops>>

----------------------------------------------------------------------------
(* Bounds of the exploration *)

MaxSlides == 2
MaxBoxes == 2
MaxPoints == 2
MaxSubPoints == 2

(* Inputs *)

Titles == {"T", "X"}
Subtitles == {"", "S"}
PointTexts == {"A", "B"}
SubPointTexts == {"B1", "B2"}
CodeBlocks ==
    { [code |-> "GET /api", left |-> 1, top |-> 2, width |-> 8, height |-> 3],
      [code |-> "POST /api", left |-> 1, top |-> 2, width |-> 8, height |-> 3],
      [code |-> "POST /api", left |-> 2, top |-> 5, width |-> 6, height |-> 1] }

----------------------------------------------------------------------------
(* Python values *)

\* a plain string in content_points
Str(t) == [tuple |-> FALSE, text |-> t, subs |-> <<>>]

\* a tuple (text, [sub points]) in content_points
Tup(t, subs) == [tuple |-> TRUE, text |-> t, subs |-> subs]

\* content_points=None, the default
NonePoints == [none |-> TRUE, list |-> <<>>]

\* content_points=[...]
ListPoints(l) == [none |-> FALSE, list |-> l]

\* truth value of content_points in "if content_points:"
Truthy(cp) == ~cp.none /\ Len(cp.list) > 0

\* "if subtitle:" on a string
TruthyStr(s) == s # ""

SeqsUpTo(S, n) == UNION { [1..k -> S] : k \in 0..n }

Points == { Str(t) : t \in PointTexts }
            \cup { Tup(t, subs) : t \in PointTexts, subs \in SeqsUpTo(SubPointTexts, MaxSubPoints) }

PointLists == { NonePoints } \cup { ListPoints(l) : l \in SeqsUpTo(Points, MaxPoints) }

SamplePointLists ==
    { NonePoints,
      ListPoints(<<>>),
      ListPoints(<< Tup("Alpha", <<"Alpha-1">>) >>),
      ListPoints(<< Str("A"), Tup("B", <<"B1", "B2">>) >>) }

NoReturn == [kind |-> "None", slide |-> 0, box |-> 0]
SlideHandle(i) == [kind |-> "slide", slide |-> i, box |-> 0]
TextboxHandle(i, b) == [kind |-> "textbox", slide |-> i, box |-> b]

NoCall == [op |-> "None", title |-> "", subtitle |-> "", points |-> NonePoints,
           slide |-> 0, block |-> [code |-> "", left |-> 0, top |-> 0, width |-> 0, height |-> 0]]

----------------------------------------------------------------------------
(* The presentation *)

Layouts == 0..2

\* prs.slide_layouts[0], "Title slide layout"
TitleLayout == 0

ContentLayout_AsTitle == TitleLayout

\* prs.slide_layouts[1], "Title and content layout"
ContentLayout == 1

\* prs.slide_layouts[2], "Section header layout"
SectionLayout == 2

\* Presentation(): in the default template every one of these layouts holds a placeholder idx 1
DefaultTemplate == [l \in Layouts |-> TRUE]

EmptyParagraph == [text |-> "", level |-> 0]

\* the text frame of a placeholder on a new slide: one empty paragraph
NewTextFrame == << EmptyParagraph >>

\* prs.slides.add_slide(slide_layout): the new slide, its placeholders cloned from the layout
NewSlide(l) ==
    [layout |-> l,
     title |-> "",
     ph1 |-> [present |-> tmpl[l], paras |-> IF tmpl[l] THEN NewTextFrame ELSE <<>>],
     boxes |-> <<>>]

\* prs.slides.add_slide appends to the slide list
AddSlide_Front(ss, slide) == << slide >> \o ss

AddSlide(ss, slide) == Append(ss, slide)

\* shape.text = s on a placeholder: the frame keeps one paragraph, holding s
SetFrameText(paras, s) == << [paras[1] EXCEPT !.text = s] >>

\* text_frame.clear(): all paragraphs but the first removed, the first emptied, its level kept
Clear(paras) == << [paras[1] EXCEPT !.text = ""] >>

Init ==
    /\ tmpl = DefaultTemplate
    /\ slides = <<>>
    /\ call = NoCall
    /\ ret = NoReturn
    /\ exc = "None"
    /\ ops = <<>>

----------------------------------------------------------------------------
(* The body loop of create_content_slide.  st is the text frame while the   *)
(* loop runs: its paragraphs, the index of the paragraph p refers to, and   *)
(* the calls issued so far.                                                 *)

\* text_frame.paragraphs[0]
FirstParagraph(st) == [st EXCEPT !.p = 1, !.ops = Append(@, "paragraphs[0]")]

\* text_frame.add_paragraph(): a new empty paragraph at the end
AddParagraph(st) ==
    [paras |-> Append(st.paras, EmptyParagraph),
     p |-> Len(st.paras) + 1,
     ops |-> Append(st.ops, "add_paragraph")]

\* p.text = t
SetText(st, t) == [st EXCEPT !.paras[st.p].text = t, !.ops = Append(@, "p.text")]

\* p.level = l
SetLevel(st, l) == [st EXCEPT !.paras[st.p].level = l, !.ops = Append(@, "p.level")]

SelectParagraph_AlwaysAppend(st, i) == AddParagraph(st)

\* if i == 0: p = text_frame.paragraphs[0]  else: p = text_frame.add_paragraph()
SelectParagraph(st, i) == IF i = 0 THEN FirstParagraph(st) ELSE AddParagraph(st)

SubPointStep_NoAppend(st, sub_point) == SetLevel(SetText(st, sub_point), 1)

SubPointStep_SameLevel(st, sub_point) == SetLevel(SetText(AddParagraph(st), sub_point), 0)

\* one round of "for sub_point in point[1]"
SubPointStep(st, sub_point) == SetLevel(SetText(AddParagraph(st), sub_point), 1)

RECURSIVE SubPointLoop(_, _, _)
\* for sub_point in point[1], from the j-th on
SubPointLoop(st, subs, j) ==
    IF j > Len(subs) THEN st
    ELSE SubPointLoop(SubPointStep(st, subs[j]), subs, j + 1)

\* the body of the loop after p is chosen: the isinstance(point, tuple) branches
RenderPoint(st, point) ==
    IF point.tuple
    THEN SubPointLoop(SetLevel(SetText(st, point.text), 0), point.subs, 1)
    ELSE SetLevel(SetText(st, point.text), 0)

RECURSIVE PointLoop(_, _, _)
\* for i, point in enumerate(content_points), from index i on
PointLoop(st, points, i) ==
    IF i >= Len(points) THEN st
    ELSE PointLoop(RenderPoint(SelectParagraph(st, i), points[i + 1]), points, i + 1)

ShouldPopulate_IfRegion(cp, slide) == Truthy(cp) /\ slide.ph1.present

ShouldPopulate_NotNone(cp, slide) == ~cp.none

\* "if content_points:" decides alone whether the body is populated
ShouldPopulate(cp, slide) == Truthy(cp)

----------------------------------------------------------------------------
(* The helpers *)

SetSubtitle_Never(slide, subtitle) == slide

\* if subtitle: subtitle_shape.text = subtitle
SetSubtitle(slide, subtitle) ==
    IF TruthyStr(subtitle)
    THEN [slide EXCEPT !.ph1.paras = SetFrameText(@, subtitle)]
    ELSE slide

create_title_slide(title, subtitle) ==
    /\ exc = "None"
    /\ call' = [NoCall EXCEPT !.op = "create_title_slide", !.title = title, !.subtitle = subtitle]
    /\ LET slide == NewSlide(TitleLayout)
           first == << "add_slide", "placeholders[1]" >>
       IN IF ~slide.ph1.present
          THEN \* slide.placeholders[1] raises KeyError before the title is set
               /\ slides' = AddSlide(slides, slide)
               /\ ops' = first
               /\ exc' = "KeyError"
               /\ ret' = NoReturn
          ELSE /\ slides' = AddSlide(slides, SetSubtitle([slide EXCEPT !.title = title], subtitle))
               /\ ops' = first \o << "title.text" >>
                           \o (IF TruthyStr(subtitle) THEN << "subtitle.text" >> ELSE <<>>)
               /\ exc' = "None"
               /\ ret' = SlideHandle(Len(slides) + 1)
    /\ UNCHANGED tmpl

create_content_slide(title, content_points) ==
    /\ exc = "None"
    /\ call' = [NoCall EXCEPT !.op = "create_content_slide", !.title = title,
                              !.points = content_points]
    /\ LET slide == [NewSlide(ContentLayout) EXCEPT !.title = title]
           first == << "add_slide", "title.text" >>
       IN IF ~ShouldPopulate(content_points, slide)
          THEN /\ slides' = AddSlide(slides, slide)
               /\ ops' = first
               /\ exc' = "None"
               /\ ret' = SlideHandle(Len(slides) + 1)
          ELSE IF ~slide.ph1.present
          THEN \* slide.placeholders[1] raises KeyError; nothing catches it
               /\ slides' = AddSlide(slides, slide)
               /\ ops' = first \o << "placeholders[1]" >>
               /\ exc' = "KeyError"
               /\ ret' = NoReturn
          ELSE LET st == PointLoop([paras |-> Clear(slide.ph1.paras), p |-> 0,
                                    ops |-> first \o << "placeholders[1]", "clear" >>],
                                   content_points.list, 0)
               IN /\ slides' = AddSlide(slides, [slide EXCEPT !.ph1.paras = st.paras])
                  /\ ops' = st.ops
                  /\ exc' = "None"
                  /\ ret' = SlideHandle(Len(slides) + 1)
    /\ UNCHANGED tmpl

create_section_header(section_title) ==
    /\ exc = "None"
    /\ call' = [NoCall EXCEPT !.op = "create_section_header", !.title = section_title]
    /\ slides' = AddSlide(slides, [NewSlide(SectionLayout) EXCEPT !.title = section_title])
    /\ ops' = << "add_slide", "title.text" >>
    /\ exc' = "None"
    /\ ret' = SlideHandle(Len(slides) + 1)
    /\ UNCHANGED tmpl

\* Pt(n): a length of n points, in EMU
Pt(n) == n * 12700

\* RGBColor(r, g, b)
RGBColor(r, g, b) == << r, g, b >>

CodeFontPt == 9

\* slide.shapes.add_textbox(left, top, width, height): nothing set yet
\* (word_wrap, font name and fill unset are "None"; font size unset is 0; one empty paragraph)
NewTextbox(left, top, width, height) ==
    [left |-> left, top |-> top, width |-> width, height |-> height,
     word_wrap |-> "None",
     text |-> "",
     font |-> [name |-> "None", size |-> 0],
     fill |-> [type |-> "None", rgb |-> <<>>]]

\* text_frame.word_wrap = True; p = text_frame.paragraphs[0]; p.text = code_text
FillTextbox(box, code_text) == [box EXCEPT !.word_wrap = "True", !.text = code_text]

StyleCodeBlock_ByHeight(box) ==
    [box EXCEPT !.font = [name |-> "Courier New", size |-> Pt(box.height * 3)],
                !.fill = [type |-> "solid", rgb |-> RGBColor(240, 240, 240)]]

\* p.font.name, p.font.size, fill.solid(), fill.fore_color.rgb
StyleCodeBlock(box) ==
    [box EXCEPT !.font = [name |-> "Courier New", size |-> Pt(CodeFontPt)],
                !.fill = [type |-> "solid", rgb |-> RGBColor(240, 240, 240)]]

AddTextbox_Replace(boxes, box) == << box >>

\* the new text box joins the slide's shapes, after the ones already there
AddTextbox(boxes, box) == Append(boxes, box)

add_code_block(slide, block) ==
    /\ exc = "None"
    /\ slide \in 1..Len(slides)
    /\ call' = [NoCall EXCEPT !.op = "add_code_block", !.slide = slide, !.block = block]
    /\ LET textbox == StyleCodeBlock(FillTextbox(
                          NewTextbox(block.left, block.top, block.width, block.height),
                          block.code))
       IN /\ slides' = [slides EXCEPT ![slide].boxes = AddTextbox(@, textbox)]
          /\ ret' = TextboxHandle(slide, Len(slides'[slide].boxes))
    /\ ops' = << "add_textbox", "word_wrap", "paragraphs[0]", "p.text",
                 "font.name", "font.size", "fill.solid", "fore_color.rgb" >>
    /\ exc' = "None"
    /\ UNCHANGED tmpl

----------------------------------------------------------------------------
(* The callers *)

RECURSIVE TotalBoxes(_)
TotalBoxes(ss) == IF ss = <<>> THEN 0 ELSE Len(Head(ss).boxes) + TotalBoxes(Tail(ss))

\* main() calls the helpers one after the other and catches nothing they raise.
\* A batch: any sequence of helper calls, the content points drawn from the samples.
Next ==
    \/ /\ Len(slides) < MaxSlides
       /\ \E t \in Titles, s \in Subtitles : create_title_slide(t, s)
    \/ /\ Len(slides) < MaxSlides
       /\ \E t \in Titles, cp \in SamplePointLists : create_content_slide(t, cp)
    \/ /\ Len(slides) < MaxSlides
       /\ \E t \in Titles : create_section_header(t)
    \/ /\ TotalBoxes(slides) < MaxBoxes
       /\ \E i \in 1..Len(slides), b \in CodeBlocks : add_code_block(i, b)

\* One slide, then one code block on it: the content points drawn from every list in the bounds.
NextRender ==
    \/ /\ slides = <<>>
       /\ \E t \in Titles, s \in Subtitles : create_title_slide(t, s)
    \/ /\ slides = <<>>
       /\ \E t \in Titles, cp \in PointLists : create_content_slide(t, cp)
    \/ /\ slides = <<>>
       /\ \E t \in Titles : create_section_header(t)
    \/ /\ TotalBoxes(slides) = 0
       /\ \E i \in 1..Len(slides), b \in CodeBlocks : add_code_block(i, b)

\* a batch of slides on the default template, as main() builds it
Spec == Init /\ [][Next]_vars

\* one slide, every content_points value within the bounds
SpecRender == Init /\ [][NextRender]_vars

\* prs is a parameter of the helpers: a batch of slides on any template
InitTemplate ==
    /\ tmpl \in [Layouts -> BOOLEAN]
    /\ slides = <<>>
    /\ call = NoCall
    /\ ret = NoReturn
    /\ exc = "None"
    /\ ops = <<>>

SpecTemplate == InitTemplate /\ [][Next]_vars

----------------------------------------------------------------------------
(* Properties *)

LastSlide == slides[Len(slides)]

IsCreate(op) == op \in {"create_title_slide", "create_content_slide", "create_section_header"}

RenderedContent == call.op = "create_content_slide" /\ Truthy(call.points)

RECURSIVE Flatten(_)
\* the (text, level) pairs of a list of points: each item at level 0, then its children at level 1
Flatten(points) ==
    IF points = <<>> THEN <<>>
    ELSE << [text |-> Head(points).text, level |-> 0] >>
         \o [j \in 1..Len(Head(points).subs) |-> [text |-> Head(points).subs[j], level |-> 1]]
         \o Flatten(Tail(points))

RECURSIVE PairCount(_)
\* sum over the items of 1 + len(children)
PairCount(points) ==
    IF points = <<>> THEN 0 ELSE 1 + Len(Head(points).subs) + PairCount(Tail(points))

RECURSIVE LevelPattern(_)
\* per item one 0, then one 1 per child
LevelPattern(points) ==
    IF points = <<>> THEN <<>>
    ELSE << 0 >> \o [j \in 1..Len(Head(points).subs) |-> 1] \o LevelPattern(Tail(points))

IsTextSet(o) == o = "p.text"

IsParagraphTarget(o) == o \in {"paragraphs[0]", "add_paragraph"}

IsBodyOp(o) == o \in {"clear", "paragraphs[0]", "add_paragraph", "p.text", "p.level"}

ExamplePoints == << Tup("A", <<>>), Tup("B", << "B1", "B2" >>) >>

ExampleParagraphs ==
    << [text |-> "A", level |-> 0], [text |-> "B", level |-> 0],
       [text |-> "B1", level |-> 1], [text |-> "B2", level |-> 1] >>

\* C1: after create_content_slide with a non-empty list of points, the body holds exactly
\* the pairs (item, 0) followed by (child, 1) for each child, in input order, nothing
\* sorted, dropped or deduplicated; [("A", []), ("B", ["B1","B2"])] gives
\* [("A",0), ("B",0), ("B1",1), ("B2",1)].
C1_OrderPreserved ==
    RenderedContent =>
        /\ LastSlide.ph1.paras = Flatten(call.points.list)
        /\ call.points.list = ExamplePoints => LastSlide.ph1.paras = ExampleParagraphs

C1_Witness ==
    /\ RenderedContent
    /\ call.points.list = ExamplePoints
    /\ LastSlide.ph1.paras = ExampleParagraphs

\* C2: the body of a rendered list of points holds sum(1 + len(children)) paragraphs, as many
\* as were emitted, their levels being per item one 0 followed by len(children) 1s, and no
\* level is below 0 or above 1.
C2_CountAndLevels ==
    call.op = "create_content_slide" =>
        /\ Len(SelectSeq(ops, IsTextSet)) = PairCount(call.points.list)
        /\ RenderedContent =>
              LET paras == LastSlide.ph1.paras
              IN /\ Len(paras) = PairCount(call.points.list)
                 /\ [k \in 1..Len(paras) |-> paras[k].level] = LevelPattern(call.points.list)
                 /\ \A k \in 1..Len(paras) : paras[k].level \in {0, 1}

C2_Witness ==
    /\ RenderedContent
    /\ Len(call.points.list) = 2
    /\ Len(call.points.list[1].subs) = 2
    /\ call.points.list[2].subs = <<>>
    /\ [k \in 1..Len(LastSlide.ph1.paras) |-> LastSlide.ph1.paras[k].level] = << 0, 1, 1, 0 >>

\* C3: create_content_slide with an empty or absent list of points issues no operation on the
\* body: not cleared, no paragraph set or appended, the region left as the new slide has it;
\* only the slide and its title text are made.
C3_EmptyLeavesBodyAlone ==
    (call.op = "create_content_slide" /\ ~Truthy(call.points)) =>
        /\ ops = << "add_slide", "title.text" >>
        /\ SelectSeq(ops, IsBodyOp) = <<>>
        /\ LastSlide.ph1.paras = NewTextFrame
        /\ LastSlide.title = call.title
        /\ LastSlide.boxes = <<>>
        /\ ret = SlideHandle(Len(slides))

C3_Witness ==
    /\ call.op = "create_content_slide"
    /\ call.points = ListPoints(<<>>)
    /\ ops = << "add_slide", "title.text" >>
    /\ LastSlide.ph1.paras = NewTextFrame

\* the layouts of the default template, by index
LayoutKind(l) == CASE l = 0 -> "Title" [] l = 1 -> "Content" [] l = 2 -> "SectionHeader"

\* C4: the layout of a new slide is decided by the helper called alone: create_title_slide
\* gives Title, create_content_slide Content, create_section_header SectionHeader, whatever
\* the arguments; the three differ and Title is never Content.
C4_LayoutByOperation ==
    IsCreate(call.op) =>
        /\ call.op = "create_title_slide" =>
              LayoutKind(LastSlide.layout) = "Title" /\ LayoutKind(LastSlide.layout) # "Content"
        /\ call.op = "create_content_slide" => LayoutKind(LastSlide.layout) = "Content"
        /\ call.op = "create_section_header" => LayoutKind(LastSlide.layout) = "SectionHeader"

C4_Witness ==
    /\ Len(slides) = 2
    /\ call.op = "create_content_slide"
    /\ Truthy(call.points)
    /\ LayoutKind(slides[1].layout) = "Title"
    /\ LayoutKind(slides[2].layout) = "Content"

\* C5: every create_title_slide, create_content_slide or create_section_header call appends
\* exactly one slide at the end of the slide list and returns the handle of that slide; the
\* slides made by earlier calls keep their place and their content.
C5_AppendInCallOrder ==
    [][ IsCreate(call'.op) =>
          /\ Len(slides') = Len(slides) + 1
          /\ SubSeq(slides', 1, Len(slides)) = slides
          /\ slides'[Len(slides')].title = call'.title
          /\ ret' = SlideHandle(Len(slides')) ]_vars

C5_Witness ==
    /\ Len(slides) = 2
    /\ IsCreate(call.op)
    /\ ret = SlideHandle(2)
    /\ slides[1].title # slides[2].title
    /\ slides[1].boxes # <<>>

BodylessContent ==
    /\ call.op = "create_content_slide"
    /\ Truthy(call.points)
    /\ ~LastSlide.ph1.present

AllBoxes == UNION { { << i, b >> : b \in 1..Len(slides[i].boxes) } : i \in 1..Len(slides) }

\* C7: every text box add_code_block makes has the same fixed attributes, whatever its text
\* and geometry: font Courier New, size 9 pt, solid fill RGB(240,240,240), word wrap on.
C7_UniformCodeStyle ==
    \A h \in AllBoxes :
        LET box == slides[h[1]].boxes[h[2]]
        IN /\ box.font.name = "Courier New"
           /\ box.font.size = 114300
           /\ box.fill.type = "solid"
           /\ box.fill.rgb = << 240, 240, 240 >>
           /\ box.word_wrap = "True"

C7_Witness ==
    \E g, h \in AllBoxes :
        LET a == slides[g[1]].boxes[g[2]]
            b == slides[h[1]].boxes[h[2]]
        IN /\ a.text # b.text
           /\ a.height # b.height
           /\ a.font = b.font
           /\ a.fill = b.fill

AlphaPoints == ListPoints(<< Tup("Alpha", << "Alpha-1" >>) >>)

AlphaParagraphs == << [text |-> "Alpha", level |-> 0], [text |-> "Alpha-1", level |-> 1] >>

\* C8: create_title_slide with a title and a non-empty subtitle makes exactly one new slide,
\* its title and subtitle regions holding them, no body paragraph emitted and no text box;
\* create_content_slide titled "X" with [("Alpha", ["Alpha-1"])] makes exactly one new slide
\* titled "X" with the two paragraphs ("Alpha", 0), ("Alpha-1", 1) and no text box.
C8_EndToEnd ==
    [][ LET new == slides'[Len(slides')]
        IN /\ (call'.op = "create_title_slide" /\ TruthyStr(call'.subtitle)) =>
                 /\ Len(slides') = Len(slides) + 1
                 /\ new.title = call'.title
                 /\ new.ph1.paras = << [text |-> call'.subtitle, level |-> 0] >>
                 /\ SelectSeq(ops', IsBodyOp) = <<>>
                 /\ new.boxes = <<>>
           /\ (call'.op = "create_content_slide" /\ call'.title = "X"
                 /\ call'.points = AlphaPoints) =>
                 /\ Len(slides') = Len(slides) + 1
                 /\ new.title = "X"
                 /\ new.ph1.paras = AlphaParagraphs
                 /\ new.boxes = <<>> ]_vars

C8_Witness ==
    /\ Len(slides) = 2
    /\ call.op = "create_content_slide"
    /\ slides[1].layout = TitleLayout
    /\ slides[1].title = "T"
    /\ slides[1].ph1.paras = << [text |-> "S", level |-> 0] >>
    /\ slides[2].title = "X"
    /\ slides[2].ph1.paras = AlphaParagraphs
    /\ slides[2].boxes = <<>>

\* C9: rendering a non-empty list onto the body the new slide comes with, the first pair is
\* written into the paragraph already there and every later pair, the children of the first
\* item too, into a newly appended one; afterwards the body holds the emitted pairs only, no
\* blank or left-over paragraph before, between or after them.
C9_FirstOverwritesRestAppend ==
    RenderedContent =>
        LET n == PairCount(call.points.list)
            paras == LastSlide.ph1.paras
        IN /\ SelectSeq(ops, IsParagraphTarget)
                = << "paragraphs[0]" >> \o [k \in 1..(n - 1) |-> "add_paragraph"]
           /\ Len(paras) = n
           /\ paras[1].text = call.points.list[1].text
           /\ \A k \in 1..Len(paras) : paras[k] # EmptyParagraph

C9_Witness ==
    /\ RenderedContent
    /\ Len(call.points.list) = 2
    /\ Len(call.points.list[1].subs) = 2
    /\ Len(LastSlide.ph1.paras) = 4 + Len(call.points.list[2].subs)
    /\ LastSlide.ph1.paras[1].text = call.points.list[1].text

\* C10: add_code_block adds exactly one text box to the slide, at the geometry given and
\* holding the code text, and changes nothing else: not the slide's title, body paragraphs
\* or earlier text boxes, not any other slide, not the slide list.
C10_CodeBlockFrame ==
    [][ call'.op = "add_code_block" =>
          LET i == call'.slide
              b == call'.block
              old == slides[i]
              new == slides'[i]
              box == new.boxes[Len(new.boxes)]
          IN /\ Len(slides') = Len(slides)
             /\ \A k \in 1..Len(slides) : k # i => slides'[k] = slides[k]
             /\ new.layout = old.layout
             /\ new.title = old.title
             /\ new.ph1 = old.ph1
             /\ Len(new.boxes) = Len(old.boxes) + 1
             /\ SubSeq(new.boxes, 1, Len(old.boxes)) = old.boxes
             /\ << box.left, box.top, box.width, box.height >>
                   = << b.left, b.top, b.width, b.height >>
             /\ box.text = b.code
             /\ ret' = TextboxHandle(i, Len(new.boxes)) ]_vars

C10_Witness ==
    /\ call.op = "add_code_block"
    /\ Len(slides) = 2
    /\ Len(slides[1].ph1.paras) = 4
    /\ Len(slides[1].boxes) = 2
    /\ slides[1].boxes[1] # slides[1].boxes[2]
    /\ ret = TextboxHandle(1, 2)

====
